---- MODULE Spec2Model ----
(***************************************************************************)
(* Task Tracker: the two HTTP implementations of the task repository       *)
(* (FastAPI main.py and Django tasks/views.py) over the JSON file          *)
(* tasks.json.                                                             *)
(*                                                                         *)
(* Spec      sequential executions of one implementation (either one):     *)
(*           every request is handled to the end before the next starts.   *)
(* SpecConc  concurrent executions of one implementation: the handlers of  *)
(*           several callers interleave at their file operations (load,    *)
(*           open for writing, dump).                                      *)
(***************************************************************************)
EXTENDS Integers, Sequences, FiniteSets, TLC

\* ------------------------------------------------------------------ bounds
\* Longest store (number of tasks) the model lets a create produce.
MaxTasks == 2
\* Highest task id the model lets a create assign.
MaxId == 2
\* Highest value of the clock (datetime.now()).
MaxClock == 1
\* Number of concurrent callers in SpecConc.
NumProcs == 2

\* --------------------------------------------------------- program constants
\* Field(..., max_length=500) of TaskCreate and TaskUpdate.
max_length == 500
\* Field(..., min_length=1) of TaskCreate and TaskUpdate.
min_length == 1

\* ------------------------------------------------------------------ strings
\* A Python str is modelled run-length encoded: a sequence of runs
\* [ch |-> c, n |-> k], k >= 1 copies of the character c, so that a string of
\* 501 characters is one run.  " " is the whitespace character.
Run(c, k) == [ch |-> c, n |-> k]

RECURSIVE py_len(_)
\* len(s)
py_len(s) == IF s = <<>> THEN 0 ELSE Head(s).n + py_len(Tail(s))

RECURSIVE py_lstrip(_)
py_lstrip(s) ==
    IF s = <<>> THEN s
    ELSE IF Head(s).ch = " " THEN py_lstrip(Tail(s)) ELSE s

RECURSIVE py_rstrip(_)
py_rstrip(s) ==
    IF s = <<>> THEN s
    ELSE IF s[Len(s)].ch = " " THEN py_rstrip(SubSeq(s, 1, Len(s) - 1)) ELSE s

\* s.strip(): s without its leading and trailing whitespace.
py_strip(s) == py_rstrip(py_lstrip(s))

\* A JSON value of a request body: a string, or None when the key is missing.
JStr(s) == [type |-> "str", str |-> s]
JNone == [type |-> "null", str |-> <<>>]

\* Python truthiness of a request value: None and "" are falsy.
py_truthy(v) == v.type = "str" /\ v.str # <<>>

\* isinstance(v, str)
isinstance_str(v) == v.type = "str"

\* request.query_params.get('status') / request.data.get('status') when the
\* key is missing.
None == "<None>"

\* The Literal["todo", "in-progress", "done"] of TaskStatus, Task and
\* list_tasks_by_status; the list ['todo', 'in-progress', 'done'] of views.py.
StatusLiteral == {"todo", "in-progress", "done"}

\* int(pk) of the Django views and the `task_id: int` path parameter of the
\* FastAPI routes: the decimal strings parse, anything else does not.
Digits == ("1" :> 1) @@ ("2" :> 2) @@ ("3" :> 3) @@ ("4" :> 4) @@ ("5" :> 5)
              @@ ("6" :> 6) @@ ("7" :> 7) @@ ("8" :> 8) @@ ("9" :> 9)

py_int(pk) ==
    IF pk \in DOMAIN Digits THEN [ok |-> TRUE, val |-> Digits[pk]]
    ELSE [ok |-> FALSE, val |-> 0]

\* -------------------------------------------------------------------- tasks
\* class Task: the dict a handler builds and json.dump writes.
Task(id, description, st, createdAt, updatedAt) ==
    [id |-> id, description |-> description, status |-> st,
     createdAt |-> createdAt, updatedAt |-> updatedAt]

NoTask == Task(0, <<>>, "", 0, 0)

\* ---------------------------------------------------------------- responses
\* What a handler answers: the outcome kind, and the task or the list in the
\* body.  201 -> "Created", 200 -> "OK", 204 -> "NoContent",
\* 400 / 422 -> "ValidationError", 404 -> "NotFoundError".
Response(kind, task, list) == [kind |-> kind, task |-> task, list |-> list]

NoResponse == Response("none", NoTask, <<>>)
ValidationError == Response("ValidationError", NoTask, <<>>)
NotFoundError == Response("NotFoundError", NoTask, <<>>)

\* What running a handler on the loaded task list comes to: the response,
\* whether the handler reached its load, whether it reached its save, and the
\* list it saves.
Out(resp, loaded, save, tasks) ==
    [resp |-> resp, loaded |-> loaded, save |-> save, tasks |-> tasks]

\* ------------------------------------------------------------- the file
\* tasks.json: missing, holding the text json.dump wrote ("json", the array
\* of task objects), just opened with mode 'w' ("truncated", empty), or
\* holding one writer's text over the longer text of another ("garbled").
\* len is the length of the text.
MissingFile == [kind |-> "missing", tasks |-> <<>>, len |-> 0]
TruncatedFile == [kind |-> "truncated", tasks |-> <<>>, len |-> 0]
GarbledFile(n) == [kind |-> "garbled", tasks |-> <<>>, len |-> n]

StatusLen(st) == IF st = "in-progress" THEN 11 ELSE 4

\* Length of one task object in json.dump(tasks, f, indent=2): the braces,
\* the five keys with their indentation and separators (153 characters with
\* the two 26-character isoformat timestamps), the one digit of the id, the
\* description and the status.
ObjLen(t) == 153 + 1 + py_len(t.description) + StatusLen(t.status)

RECURSIVE SumObjLen(_)
SumObjLen(tasks) ==
    IF tasks = <<>> THEN 0 ELSE ObjLen(Head(tasks)) + SumObjLen(Tail(tasks))

\* Length of the text json.dump(tasks, f, indent=2) writes.
JsonLen(tasks) ==
    IF tasks = <<>> THEN 2
    ELSE 2 + SumObjLen(tasks) + 2 * (Len(tasks) - 1) + 2

\* The decimal literals json.dump writes for the ints 1 to 9.
DecimalLiterals == <<"1", "2", "3", "4", "5", "6", "7", "8", "9">>

\* The decimal literal json.dump writes for the int n.
py_repr_int(n) == IF n = 0 THEN "0" ELSE DecimalLiterals[n]

\* The int json.load reads from a decimal literal.
json_int(lit) == IF lit = "0" THEN 0 ELSE Digits[lit]

\* json.dump(tasks, f, indent=2): the array of objects, in list order, each
\* with the members of the dict: the id as the decimal literal of the int, the
\* description, status, createdAt and updatedAt as the characters of the str.
json_dump(tasks) ==
    [i \in 1..Len(tasks) |->
        [id |-> py_repr_int(tasks[i].id),
         description |-> tasks[i].description,
         status |-> tasks[i].status, createdAt |-> tasks[i].createdAt,
         updatedAt |-> tasks[i].updatedAt]]

\* The dict json.load builds from one object of the text: the number literal
\* read as an int, the strings as str.
json_object(obj) ==
    Task(json_int(obj.id), obj.description, obj.status, obj.createdAt,
         obj.updatedAt)

RECURSIVE json_load_reversed(_)
\* json.load(f) of a well-formed text with the array back to front.
json_load_reversed(text) ==
    IF text = <<>> THEN <<>>
    ELSE Append(json_load_reversed(Tail(text)), json_object(Head(text)))

RECURSIVE json_load(_)
\* json.load(f) of a well-formed text: the list of dicts, in array order.
json_load(text) ==
    IF text = <<>> THEN <<>>
    ELSE <<json_object(Head(text))>> \o json_load(Tail(text))

\* load_tasks with the except branch returning a list of one blank record
\* instead of [].
load_tasks_keeps_blank(f) ==
    IF f.kind = "missing" THEN <<>>
    ELSE IF f.kind = "json" THEN json_load(f.tasks)
    ELSE <<NoTask>>

\* load_tasks(): [] when the file does not exist or json.load raises
\* JSONDecodeError (an empty or a garbled text), else the parsed list.
load_tasks(f) ==
    IF f.kind = "missing" THEN <<>>
    ELSE IF f.kind = "json" THEN json_load(f.tasks)
    ELSE <<>>

\* save_tasks(tasks) with no other writer in between: open(TASKS_FILE, 'w'),
\* json.dump, close.
save_tasks(tasks) ==
    [kind |-> "json", tasks |-> json_dump(tasks), len |-> JsonLen(tasks)]

\* TaskViewSet._load_tasks and TaskViewSet._save_tasks: the same code.
_load_tasks(f) ==
    IF f.kind = "missing" THEN <<>>
    ELSE IF f.kind = "json" THEN json_load(f.tasks)
    ELSE <<>>

_save_tasks(tasks) ==
    [kind |-> "json", tasks |-> json_dump(tasks), len |-> JsonLen(tasks)]

\* ------------------------------------------------------------------ helpers
RECURSIVE MaxIdOf(_)
\* max(task['id'] for task in tasks), tasks not empty
MaxIdOf(tasks) ==
    IF Len(tasks) = 1 THEN Head(tasks).id
    ELSE LET m == MaxIdOf(Tail(tasks))
         IN IF Head(tasks).id > m THEN Head(tasks).id ELSE m

\* get_next_id counting the tasks (len(tasks) + 1) instead of taking the
\* highest id.
get_next_id_counts(tasks) == IF tasks = <<>> THEN 1 ELSE Len(tasks) + 1

\* get_next_id(tasks)
get_next_id(tasks) == IF tasks = <<>> THEN 1 ELSE MaxIdOf(tasks) + 1

\* TaskViewSet._get_next_id(tasks)
_get_next_id(tasks) == IF tasks = <<>> THEN 1 ELSE MaxIdOf(tasks) + 1

\* find_task_index(tasks, task_id): the first index (from 1 here, from 0 in
\* Python) of a task with that id, or -1.
find_task_index(tasks, task_id) ==
    IF \E i \in 1..Len(tasks) : tasks[i].id = task_id
    THEN CHOOSE i \in 1..Len(tasks) :
            /\ tasks[i].id = task_id
            /\ \A j \in 1..(i - 1) : tasks[j].id # task_id
    ELSE -1

\* TaskViewSet._find_task(tasks, task_id): the first index of a task with
\* that id, or 0 for (None, None).
_find_task(tasks, task_id) ==
    IF \E i \in 1..Len(tasks) : tasks[i].id = task_id
    THEN CHOOSE i \in 1..Len(tasks) :
            /\ tasks[i].id = task_id
            /\ \A j \in 1..(i - 1) : tasks[j].id # task_id
    ELSE 0

\* tasks.pop(idx)
Pop(tasks, idx) == SubSeq(tasks, 1, idx - 1) \o SubSeq(tasks, idx + 1, Len(tasks))

\* [task for task in tasks if task['status'] == s]
FilterByStatus(tasks, s) == SelectSeq(tasks, LAMBDA task : task.status = s)

\* ------------------------------------------------- FastAPI: main.py
\* A request carries the path parameter (a string), the JSON body
\* [description |-> a JSON value, status |-> a string or None] and the status
\* filter of a listing (a string or None).

\* class TaskCreate: description is required, a str, 1..500 characters long.
TaskCreate(data) ==
    /\ isinstance_str(data.description)
    /\ py_len(data.description.str) >= min_length
    /\ py_len(data.description.str) <= max_length

\* class TaskUpdate: the same field.
TaskUpdate(data) ==
    /\ isinstance_str(data.description)
    /\ py_len(data.description.str) >= min_length
    /\ py_len(data.description.str) <= max_length

\* class TaskStatus: status is one of the Literal's values.
TaskStatus(data) == data.status \in StatusLiteral

\* POST /tasks.  FastAPI validates the body against TaskCreate before it
\* calls the function (422 otherwise).
create_task(tasks, task_data, t) ==
    IF ~TaskCreate(task_data) THEN Out(ValidationError, FALSE, FALSE, tasks)
    ELSE LET new_task == Task(get_next_id(tasks), task_data.description.str,
                              "todo", t, t)
         IN Out(Response("Created", new_task, <<>>), TRUE, TRUE,
                Append(tasks, new_task))

\* GET /tasks
list_tasks(tasks) == Out(Response("OK", NoTask, tasks), TRUE, FALSE, tasks)

\* GET /tasks/status/{task_status}: the path parameter is validated against
\* the Literal before the function is called.
list_tasks_by_status(tasks, task_status) ==
    IF task_status \notin StatusLiteral
    THEN Out(ValidationError, FALSE, FALSE, tasks)
    ELSE Out(Response("OK", NoTask, FilterByStatus(tasks, task_status)),
             TRUE, FALSE, tasks)

\* GET /tasks/{task_id}
get_task(tasks, task_id) ==
    IF ~py_int(task_id).ok THEN Out(ValidationError, FALSE, FALSE, tasks)
    ELSE LET idx == find_task_index(tasks, py_int(task_id).val)
         IN IF idx = -1 THEN Out(NotFoundError, TRUE, FALSE, tasks)
            ELSE Out(Response("OK", tasks[idx], <<>>), TRUE, FALSE, tasks)

\* update_task taking the task out of the list and appending the changed
\* task at the end instead of assigning to tasks[idx] in place.
update_task_moves_to_end(tasks, task_id, task_data, t) ==
    IF ~py_int(task_id).ok \/ ~TaskUpdate(task_data)
    THEN Out(ValidationError, FALSE, FALSE, tasks)
    ELSE LET idx == find_task_index(tasks, py_int(task_id).val)
         IN IF idx = -1 THEN Out(NotFoundError, TRUE, FALSE, tasks)
            ELSE LET changed == [tasks[idx] EXCEPT
                                   !.description = task_data.description.str,
                                   !.updatedAt = t]
                 IN Out(Response("OK", changed, <<>>), TRUE, TRUE,
                        Append(Pop(tasks, idx), changed))

\* PUT /tasks/{task_id}
update_task(tasks, task_id, task_data, t) ==
    IF ~py_int(task_id).ok \/ ~TaskUpdate(task_data)
    THEN Out(ValidationError, FALSE, FALSE, tasks)
    ELSE LET idx == find_task_index(tasks, py_int(task_id).val)
         IN IF idx = -1 THEN Out(NotFoundError, TRUE, FALSE, tasks)
            ELSE LET new == [tasks EXCEPT
                               ![idx].description = task_data.description.str,
                               ![idx].updatedAt = t]
                 IN Out(Response("OK", new[idx], <<>>), TRUE, TRUE, new)

\* update_task_status writing the new status and updatedAt to every task of the
\* list instead of tasks[idx] alone.
update_task_status_sets_all(tasks, task_id, status_data, t) ==
    IF ~py_int(task_id).ok \/ ~TaskStatus(status_data)
    THEN Out(ValidationError, FALSE, FALSE, tasks)
    ELSE LET idx == find_task_index(tasks, py_int(task_id).val)
         IN IF idx = -1 THEN Out(NotFoundError, TRUE, FALSE, tasks)
            ELSE LET new == [i \in 1..Len(tasks) |->
                               [tasks[i] EXCEPT !.status = status_data.status,
                                                !.updatedAt = t]]
                 IN Out(Response("OK", new[idx], <<>>), TRUE, TRUE, new)

\* PATCH /tasks/{task_id}/status
update_task_status(tasks, task_id, status_data, t) ==
    IF ~py_int(task_id).ok \/ ~TaskStatus(status_data)
    THEN Out(ValidationError, FALSE, FALSE, tasks)
    ELSE LET idx == find_task_index(tasks, py_int(task_id).val)
         IN IF idx = -1 THEN Out(NotFoundError, TRUE, FALSE, tasks)
            ELSE LET new == [tasks EXCEPT
                               ![idx].status = status_data.status,
                               ![idx].updatedAt = t]
                 IN Out(Response("OK", new[idx], <<>>), TRUE, TRUE, new)

\* delete_task with tasks.pop() in place of tasks.pop(idx): the last task goes.
delete_task_pops_last(tasks, task_id) ==
    IF ~py_int(task_id).ok THEN Out(ValidationError, FALSE, FALSE, tasks)
    ELSE LET idx == find_task_index(tasks, py_int(task_id).val)
         IN IF idx = -1 THEN Out(NotFoundError, TRUE, FALSE, tasks)
            ELSE Out(Response("NoContent", NoTask, <<>>), TRUE, TRUE,
                     Pop(tasks, Len(tasks)))

\* DELETE /tasks/{task_id}
delete_task(tasks, task_id) ==
    IF ~py_int(task_id).ok THEN Out(ValidationError, FALSE, FALSE, tasks)
    ELSE LET idx == find_task_index(tasks, py_int(task_id).val)
         IN IF idx = -1 THEN Out(NotFoundError, TRUE, FALSE, tasks)
            ELSE Out(Response("NoContent", NoTask, <<>>), TRUE, TRUE,
                     Pop(tasks, idx))

\* PATCH /tasks/{task_id}/mark-in-progress
mark_in_progress(tasks, task_id, t) ==
    update_task_status(tasks, task_id, [status |-> "in-progress"], t)

\* mark_done passing TaskStatus(status="in-progress"), the line of
\* mark_in_progress copied unchanged.
mark_done_copied(tasks, task_id, t) ==
    update_task_status(tasks, task_id, [status |-> "in-progress"], t)

\* PATCH /tasks/{task_id}/mark-done
mark_done(tasks, task_id, t) ==
    update_task_status(tasks, task_id, [status |-> "done"], t)

\* ------------------------------------------- Django: tasks/views.py
\* TaskViewSet.list with the comparison of the comprehension turned around
\* (task['status'] != status_filter).
TaskViewSet_list_keeps_others(tasks, status_filter) ==
    IF status_filter # None /\ status_filter # ""
    THEN IF status_filter \notin StatusLiteral
         THEN Out(ValidationError, TRUE, FALSE, tasks)
         ELSE Out(Response("OK", NoTask,
                           SelectSeq(tasks, LAMBDA task : task.status # status_filter)),
                  TRUE, FALSE, tasks)
    ELSE Out(Response("OK", NoTask, tasks), TRUE, FALSE, tasks)

\* TaskViewSet.list: GET /tasks/[?status=]
TaskViewSet_list(tasks, status_filter) ==
    IF status_filter # None /\ status_filter # ""
    THEN IF status_filter \notin StatusLiteral
         THEN Out(ValidationError, TRUE, FALSE, tasks)
         ELSE Out(Response("OK", NoTask, FilterByStatus(tasks, status_filter)),
                  TRUE, FALSE, tasks)
    ELSE Out(Response("OK", NoTask, tasks), TRUE, FALSE, tasks)

\* TaskViewSet.create with the clock added to the id it assigns.
TaskViewSet_create_ids_by_clock(tasks, data, t) ==
    LET description == data.description
    IN IF ~py_truthy(description)
       THEN Out(ValidationError, FALSE, FALSE, tasks)
       ELSE IF ~isinstance_str(description)
                \/ py_len(py_strip(description.str)) = 0
       THEN Out(ValidationError, FALSE, FALSE, tasks)
       ELSE LET new_task == Task(_get_next_id(tasks) + t,
                                 py_strip(description.str), "todo", t, t)
            IN Out(Response("Created", new_task, <<>>), TRUE, TRUE,
                   Append(tasks, new_task))

\* TaskViewSet.create: POST /tasks/
TaskViewSet_create(tasks, data, t) ==
    LET description == data.description
    IN IF ~py_truthy(description)
       THEN Out(ValidationError, FALSE, FALSE, tasks)
       ELSE IF ~isinstance_str(description)
                \/ py_len(py_strip(description.str)) = 0
       THEN Out(ValidationError, FALSE, FALSE, tasks)
       ELSE LET new_task == Task(_get_next_id(tasks),
                                 py_strip(description.str), "todo", t, t)
            IN Out(Response("Created", new_task, <<>>), TRUE, TRUE,
                   Append(tasks, new_task))

\* TaskViewSet.retrieve: GET /tasks/{id}/
TaskViewSet_retrieve(tasks, pk) ==
    IF ~py_int(pk).ok THEN Out(ValidationError, FALSE, FALSE, tasks)
    ELSE LET idx == _find_task(tasks, py_int(pk).val)
         IN IF idx = 0 THEN Out(NotFoundError, TRUE, FALSE, tasks)
            ELSE Out(Response("OK", tasks[idx], <<>>), TRUE, FALSE, tasks)

\* TaskViewSet.update writing the clock to createdAt as well as to updatedAt.
TaskViewSet_update_stamps_created(tasks, pk, data, t) ==
    IF ~py_int(pk).ok THEN Out(ValidationError, FALSE, FALSE, tasks)
    ELSE IF ~py_truthy(data.description)
    THEN Out(ValidationError, FALSE, FALSE, tasks)
    ELSE LET idx == _find_task(tasks, py_int(pk).val)
         IN IF idx = 0 THEN Out(NotFoundError, TRUE, FALSE, tasks)
            ELSE LET new == [tasks EXCEPT
                               ![idx].description = py_strip(data.description.str),
                               ![idx].createdAt = t,
                               ![idx].updatedAt = t]
                 IN Out(Response("OK", new[idx], <<>>), TRUE, TRUE, new)

\* TaskViewSet.update: PUT /tasks/{id}/
TaskViewSet_update(tasks, pk, data, t) ==
    IF ~py_int(pk).ok THEN Out(ValidationError, FALSE, FALSE, tasks)
    ELSE IF ~py_truthy(data.description)
    THEN Out(ValidationError, FALSE, FALSE, tasks)
    ELSE LET idx == _find_task(tasks, py_int(pk).val)
         IN IF idx = 0 THEN Out(NotFoundError, TRUE, FALSE, tasks)
            ELSE LET new == [tasks EXCEPT
                               ![idx].description = py_strip(data.description.str),
                               ![idx].updatedAt = t]
                 IN Out(Response("OK", new[idx], <<>>), TRUE, TRUE, new)

\* TaskViewSet.destroy with the save ahead of the not-found return.
TaskViewSet_destroy_saves_first(tasks, pk) ==
    IF ~py_int(pk).ok THEN Out(ValidationError, FALSE, FALSE, tasks)
    ELSE LET idx == _find_task(tasks, py_int(pk).val)
         IN IF idx = 0 THEN Out(NotFoundError, TRUE, TRUE, tasks)
            ELSE Out(Response("NoContent", NoTask, <<>>), TRUE, TRUE,
                     Pop(tasks, idx))

\* TaskViewSet.destroy: DELETE /tasks/{id}/
TaskViewSet_destroy(tasks, pk) ==
    IF ~py_int(pk).ok THEN Out(ValidationError, FALSE, FALSE, tasks)
    ELSE LET idx == _find_task(tasks, py_int(pk).val)
         IN IF idx = 0 THEN Out(NotFoundError, TRUE, FALSE, tasks)
            ELSE Out(Response("NoContent", NoTask, <<>>), TRUE, TRUE,
                     Pop(tasks, idx))

\* TaskViewSet.status with the check of new_status after the lookup of the
\* task instead of before it.
TaskViewSet_status_checks_late(tasks, pk, data, t) ==
    IF ~py_int(pk).ok THEN Out(ValidationError, FALSE, FALSE, tasks)
    ELSE LET idx == _find_task(tasks, py_int(pk).val)
         IN IF idx = 0 THEN Out(NotFoundError, TRUE, FALSE, tasks)
            ELSE IF data.status \notin StatusLiteral
            THEN Out(ValidationError, TRUE, FALSE, tasks)
            ELSE LET new == [tasks EXCEPT
                               ![idx].status = data.status,
                               ![idx].updatedAt = t]
                 IN Out(Response("OK", new[idx], <<>>), TRUE, TRUE, new)

\* TaskViewSet.status with a check that refuses to move a task that is done to
\* another status.
TaskViewSet_status_forward_only(tasks, pk, data, t) ==
    IF ~py_int(pk).ok THEN Out(ValidationError, FALSE, FALSE, tasks)
    ELSE IF data.status \notin StatusLiteral
    THEN Out(ValidationError, FALSE, FALSE, tasks)
    ELSE LET idx == _find_task(tasks, py_int(pk).val)
         IN IF idx = 0 THEN Out(NotFoundError, TRUE, FALSE, tasks)
            ELSE IF tasks[idx].status = "done" /\ data.status # "done"
            THEN Out(ValidationError, TRUE, FALSE, tasks)
            ELSE LET new == [tasks EXCEPT
                               ![idx].status = data.status,
                               ![idx].updatedAt = t]
                 IN Out(Response("OK", new[idx], <<>>), TRUE, TRUE, new)

\* TaskViewSet.status: PATCH /tasks/{id}/status/
TaskViewSet_status(tasks, pk, data, t) ==
    IF ~py_int(pk).ok THEN Out(ValidationError, FALSE, FALSE, tasks)
    ELSE IF data.status \notin StatusLiteral
    THEN Out(ValidationError, FALSE, FALSE, tasks)
    ELSE LET idx == _find_task(tasks, py_int(pk).val)
         IN IF idx = 0 THEN Out(NotFoundError, TRUE, FALSE, tasks)
            ELSE LET new == [tasks EXCEPT
                               ![idx].status = data.status,
                               ![idx].updatedAt = t]
                 IN Out(Response("OK", new[idx], <<>>), TRUE, TRUE, new)

\* TaskViewSet.mark_in_progress: PATCH /tasks/{id}/mark_in_progress/
TaskViewSet_mark_in_progress(tasks, pk, data, t) ==
    TaskViewSet_status(tasks, pk, [data EXCEPT !.status = "in-progress"], t)

\* TaskViewSet.mark_done: PATCH /tasks/{id}/mark_done/
TaskViewSet_mark_done(tasks, pk, data, t) ==
    TaskViewSet_status(tasks, pk, [data EXCEPT !.status = "done"], t)

\* ------------------------------------------------------------------- state
VARIABLES
    impl,     \* the implementation that runs: "fastapi" or "django"
    file,     \* tasks.json
    now,      \* datetime.now()
    req,      \* Spec: the last request handled
    resp,     \* Spec: the response to it
    lastId,   \* Spec: the id the last successful create returned (0: none yet)
    pc,       \* SpecConc: where each caller's handler is
    creq,     \* SpecConc: the request of each caller that has sent one
    cout,     \* SpecConc: what that caller's handler computed from its load
    cresp,    \* SpecConc: the response of each caller that has got one
    seen      \* SpecConc: tasks.json as the load of each caller found it

vars == <<impl, file, now, req, resp, lastId, pc, creq, cout, cresp, seen>>
seqVars == <<req, resp, lastId>>
concVars == <<pc, creq, cout, cresp, seen>>

Impl == {"fastapi", "django"}
Proc == 1..NumProcs

\* ------------------------------------------------------------------ inputs
\* The descriptions a caller sends: none, "", "   ", "  aaaaaaa  " and one of
\* 501 characters.
Descriptions ==
    { JNone,
      JStr(<<>>),
      JStr(<<Run(" ", 3)>>),
      JStr(<<Run(" ", 2), Run("a", 7), Run(" ", 2)>>),
      JStr(<<Run("a", max_length + 1)>>) }

\* The status values a caller sends in a body.
Statuses == StatusLiteral \cup {"bogus", None}

\* The status filters a caller sends with a listing.
Filters == StatusLiteral \cup {"bogus", "", None}

\* The path parameters a caller sends.
Pks == {s \in DOMAIN Digits : Digits[s] <= MaxId} \cup {"abc"}

Request(op, pk, description, st, filter) ==
    [op |-> op, pk |-> pk, data |-> [description |-> description, status |-> st],
     filter |-> filter]

NoRequest == Request("none", "", JNone, None, None)

\* ---------------------------------------------------------------- routing
\* The function the framework calls for a request, applied to the task list
\* the function's load returns.
FastAPIRoute(r, tasks, t) ==
    CASE r.op = "create" -> create_task(tasks, r.data, t)
      [] r.op = "list" -> IF r.filter = None THEN list_tasks(tasks)
                          ELSE list_tasks_by_status(tasks, r.filter)
      [] r.op = "get" -> get_task(tasks, r.pk)
      [] r.op = "update" -> update_task(tasks, r.pk, r.data, t)
      [] r.op = "status" -> update_task_status(tasks, r.pk, r.data, t)
      [] r.op = "delete" -> delete_task(tasks, r.pk)
      [] r.op = "mark_in_progress" -> mark_in_progress(tasks, r.pk, t)
      [] r.op = "mark_done" -> mark_done(tasks, r.pk, t)

DjangoRoute(r, tasks, t) ==
    CASE r.op = "create" -> TaskViewSet_create(tasks, r.data, t)
      [] r.op = "list" -> TaskViewSet_list(tasks, r.filter)
      [] r.op = "get" -> TaskViewSet_retrieve(tasks, r.pk)
      [] r.op = "update" -> TaskViewSet_update(tasks, r.pk, r.data, t)
      [] r.op = "status" -> TaskViewSet_status(tasks, r.pk, r.data, t)
      [] r.op = "delete" -> TaskViewSet_destroy(tasks, r.pk)
      [] r.op = "mark_in_progress" ->
            TaskViewSet_mark_in_progress(tasks, r.pk, r.data, t)
      [] r.op = "mark_done" -> TaskViewSet_mark_done(tasks, r.pk, r.data, t)

Load(i, f) == IF i = "fastapi" THEN load_tasks(f) ELSE _load_tasks(f)
Save(i, tasks) == IF i = "fastapi" THEN save_tasks(tasks) ELSE _save_tasks(tasks)

\* The handler of request r, run by implementation i on file f at time t.
Handle(i, r, f, t) ==
    IF i = "fastapi" THEN FastAPIRoute(r, Load(i, f), t)
    ELSE DjangoRoute(r, Load(i, f), t)

\* The model stops creating at MaxTasks tasks and at id MaxId.
WithinBounds(out) ==
    out.save =>
        /\ Len(out.tasks) <= MaxTasks
        /\ \A k \in 1..Len(out.tasks) : out.tasks[k].id <= MaxId

\* ------------------------------------------------------------------- Init
Init ==
    /\ impl \in Impl
    /\ file = MissingFile
    /\ now = 0
    /\ req = NoRequest
    /\ resp = NoResponse
    /\ lastId = 0
    /\ pc = [p \in Proc |-> "idle"]
    /\ creq = <<>>
    /\ cout = <<>>
    /\ cresp = <<>>
    /\ seen = <<>>

\* SpecConc: the clock advances between two steps.
Tick ==
    /\ now < MaxClock
    /\ now' = now + 1
    /\ UNCHANGED <<impl, file, seqVars, concVars>>

\* ------------------------------------------- Spec: sequential requests
\* The values datetime.now() can return to the next request: the clock does
\* not go backwards.
Clock == {t \in {now, now + 1} : t <= MaxClock}

\* One request, handled from its arrival to its response: validate, load,
\* change, save.
Do(op, pk, description, st, filter) ==
    \E t \in Clock :
        LET r == Request(op, pk, description, st, filter)
            out == Handle(impl, r, file, t)
        IN /\ WithinBounds(out)
           /\ now' = t
           /\ req' = r
           /\ file' = IF out.save THEN Save(impl, out.tasks) ELSE file
           /\ resp' = out.resp
           /\ lastId' = IF out.resp.kind = "Created"
                        THEN out.resp.task.id ELSE lastId
           /\ UNCHANGED <<impl, concVars>>

Create == \E d \in Descriptions : Do("create", "", d, None, None)

List == \E f \in Filters : Do("list", "", JNone, None, f)

Retrieve == \E pk \in Pks : Do("get", pk, JNone, None, None)

Update == \E pk \in Pks, d \in Descriptions : Do("update", pk, d, None, None)

UpdateStatus == \E pk \in Pks, st \in Statuses : Do("status", pk, JNone, st, None)

Destroy == \E pk \in Pks : Do("delete", pk, JNone, None, None)

MarkInProgress == \E pk \in Pks : Do("mark_in_progress", pk, JNone, None, None)

MarkDone == \E pk \in Pks : Do("mark_done", pk, JNone, None, None)

Next ==
    \/ Create
    \/ List
    \/ Retrieve
    \/ Update
    \/ UpdateStatus
    \/ Destroy
    \/ MarkInProgress
    \/ MarkDone

Spec == Init /\ [][Next]_vars

\* -------------------------------------- SpecConc: concurrent requests
\* Each caller sends one request.  Its handler runs in three steps, and the
\* steps of different callers interleave: the validation, the load and the
\* change (StartRequest); open(TASKS_FILE, 'w'), which empties the file
\* (SaveOpen); json.dump and the close that flushes the text (SaveDump).  No
\* lock is taken anywhere.

\* The requests the concurrent callers send.
ConcRequests ==
    {Request("create", "", JStr(<<Run(" ", 2), Run("a", 7), Run(" ", 2)>>),
             None, None),
     Request("list", "", JNone, None, None)}
    \cup {Request("get", pk, JNone, None, None) : pk \in Pks \ {"abc"}}
    \cup {Request("update", pk, JStr(<<Run("b", 3)>>), None, None) :
             pk \in Pks \ {"abc"}}
    \cup {Request("status", pk, JNone, "done", None) : pk \in Pks \ {"abc"}}
    \cup {Request("delete", pk, JNone, None, None) : pk \in Pks \ {"abc"}}

\* tasks.json after two creates made one after the other at time 0.
TwoTaskFile(i) ==
    LET r == Request("create", "", JStr(<<Run("a", 7)>>), None, None)
        one == Save(i, Handle(i, r, MissingFile, 0).tasks)
    IN Save(i, Handle(i, r, one, 0).tasks)

InitConc ==
    /\ impl \in Impl
    /\ file \in {MissingFile, TwoTaskFile(impl)}
    /\ now = 0
    /\ req = NoRequest
    /\ resp = NoResponse
    /\ lastId = 0
    /\ pc = [p \in Proc |-> "idle"]
    /\ creq = <<>>
    /\ cout = <<>>
    /\ cresp = <<>>
    /\ seen = <<>>

\* The caller's request arrives; the handler validates it, loads tasks.json
\* and computes its change.  A handler with nothing to save answers here.
StartRequest(p) ==
    \E r \in ConcRequests :
        LET out == Handle(impl, r, file, now)
        IN /\ pc[p] = "idle"
           /\ WithinBounds(out)
           /\ creq' = (p :> r) @@ creq
           /\ cout' = (p :> out) @@ cout
           /\ seen' = IF out.loaded THEN (p :> file) @@ seen ELSE seen
           /\ pc' = [pc EXCEPT ![p] = IF out.save THEN "open" ELSE "done"]
           /\ cresp' = IF out.save THEN cresp ELSE (p :> out.resp) @@ cresp
           /\ UNCHANGED <<impl, file, now, seqVars>>

\* with open(TASKS_FILE, 'w') as f: the file is created or truncated.
SaveOpen(p) ==
    /\ pc[p] = "open"
    /\ file' = TruncatedFile
    /\ pc' = [pc EXCEPT ![p] = "dump"]
    /\ UNCHANGED <<impl, now, seqVars, creq, cout, cresp, seen>>

\* The text of this writer, written from offset 0 over what the file holds
\* now: over an empty file or a text no longer than its own it is the whole
\* content; over a longer text of another writer the other's tail stays
\* behind it, which is no JSON.
Overwrite(i, f, tasks) ==
    IF f.len <= JsonLen(tasks) THEN Save(i, tasks) ELSE GarbledFile(f.len)

\* json.dump(tasks, f, indent=2) and the end of the with block; the handler
\* returns its response.
SaveDump(p) ==
    /\ pc[p] = "dump"
    /\ file' = Overwrite(impl, file, cout[p].tasks)
    /\ pc' = [pc EXCEPT ![p] = "done"]
    /\ cresp' = (p :> cout[p].resp) @@ cresp
    /\ UNCHANGED <<impl, now, seqVars, creq, cout, seen>>

NextConc ==
    \/ \E p \in Proc : StartRequest(p)
    \/ \E p \in Proc : SaveOpen(p)
    \/ \E p \in Proc : SaveDump(p)
    \/ Tick

SpecConc == InitConc /\ [][NextConc]_vars

\* ================================================================ claims
\* The tasks tasks.json f holds for a reader: those of the array of a complete
\* text, nothing otherwise.
StoredIn(f) == IF f.kind = "json" THEN json_load(f.tasks) ELSE <<>>

HasId(tasks, id) == \E k \in 1..Len(tasks) : tasks[k].id = id

\* 1 for an empty store, else the highest id in it plus one.
NextIdIn(tasks) ==
    IF tasks = <<>> THEN 1
    ELSE 1 + CHOOSE m \in {tasks[k].id : k \in 1..Len(tasks)} :
                \A k \in 1..Len(tasks) : tasks[k].id <= m

\* A description the contract refuses: empty, whitespace only, or longer than
\* 500 characters.
RefusedDescription(d) ==
    \/ py_len(py_strip(d.str)) = 0
    \/ py_len(d.str) > 500

RECURSIVE Matching(_, _)
\* The tasks of a sequence that have status st, in their order.
Matching(tasks, st) ==
    IF tasks = <<>> THEN <<>>
    ELSE IF Head(tasks).status = st
         THEN <<Head(tasks)>> \o Matching(Tail(tasks), st)
         ELSE Matching(Tail(tasks), st)

\* C1: the ids returned by successive successful creates are strictly
\* increasing (so none is assigned twice), whatever updates and deletes come
\* between them: each successful create returns an id above the one the
\* successful create before it returned.
C1_CreatedIdsIncrease ==
    [][(req'.op = "create" /\ resp'.kind = "Created")
          => resp'.task.id > lastId]_vars

\* C2: create with an empty, a whitespace-only or an over-500-character
\* description answers ValidationError and leaves tasks.json as it was.
C2_RefusedCreateFails ==
    [][(req'.op = "create" /\ req'.data.description.type = "str"
          /\ RefusedDescription(req'.data.description))
          => (resp'.kind = "ValidationError" /\ file' = file)]_vars

\* C3: a successful create appends exactly one task to the end of the store
\* and returns it: status todo, createdAt = updatedAt, the id nextId of the
\* store as loaded, the description the input without its surrounding
\* whitespace; the tasks stored before stay as they were, where they were.
C3_CreateAppendsTrimmedTask ==
    [][(req'.op = "create" /\ resp'.kind = "Created")
          => /\ StoredIn(file') = Append(StoredIn(file), resp'.task)
             /\ resp'.task.status = "todo"
             /\ resp'.task.createdAt = resp'.task.updatedAt
             /\ resp'.task.id = NextIdIn(StoredIn(file))
             /\ resp'.task.description = py_strip(req'.data.description.str)]_vars

\* C4: updateDescription(id, description) answers ValidationError and leaves
\* tasks.json as it was for an empty, whitespace-only or over-500-character
\* description; NotFoundError for a valid description and an absent id;
\* otherwise it stores the trimmed description and the new updatedAt on that
\* task and returns it.
C4_UpdateDescriptionContract ==
    [][(req'.op = "update" /\ py_int(req'.pk).ok
          /\ req'.data.description.type = "str")
          => LET d == req'.data.description
                 id == py_int(req'.pk).val
                 old == StoredIn(file)
             IN IF RefusedDescription(d)
                THEN resp'.kind = "ValidationError" /\ file' = file
                ELSE IF ~HasId(old, id)
                THEN resp'.kind = "NotFoundError"
                ELSE /\ resp'.kind = "OK"
                     /\ \E k \in 1..Len(old) :
                           /\ old[k].id = id
                           /\ StoredIn(file') =
                                 [old EXCEPT ![k].description = py_strip(d.str),
                                             ![k].updatedAt = now']
                           /\ resp'.task = StoredIn(file')[k]]_vars

\* C5: updateStatus(id, status) with a status outside {todo, in-progress,
\* done} answers ValidationError whether or not a task has that id, and leaves
\* tasks.json as it was; with a valid status and an absent id it answers
\* NotFoundError and leaves tasks.json as it was.
C5_UpdateStatusErrors ==
    [][req'.op = "status"
          => /\ req'.data.status \notin StatusLiteral
                => (resp'.kind = "ValidationError" /\ file' = file)
             /\ (/\ req'.data.status \in StatusLiteral
                 /\ py_int(req'.pk).ok
                 /\ ~HasId(StoredIn(file), py_int(req'.pk).val))
                => (resp'.kind = "NotFoundError" /\ file' = file)]_vars

\* C5's case: an invalid status was sent for a task that exists.
C5_Witness ==
    /\ req.op = "status"
    /\ req.data.status = "bogus"
    /\ py_int(req.pk).ok
    /\ HasId(StoredIn(file), py_int(req.pk).val)
    /\ resp.kind = "ValidationError"

\* C6: get(id) answers NotFoundError exactly when no stored task has that id
\* and otherwise returns the stored task with that id; delete(id) on an absent
\* id answers NotFoundError; in the state a successful delete(id) leaves, no
\* task has that id and get(id) answers NotFoundError.
C6_GetAndDelete ==
    [][LET id == py_int(req'.pk).val
           old == StoredIn(file)
           new == StoredIn(file')
       IN /\ (req'.op = "get" /\ py_int(req'.pk).ok)
                => IF HasId(old, id)
                   THEN /\ resp'.kind = "OK"
                        /\ resp'.task.id = id
                        /\ \E k \in 1..Len(old) : old[k] = resp'.task
                   ELSE resp'.kind = "NotFoundError"
          /\ (req'.op = "delete" /\ py_int(req'.pk).ok /\ ~HasId(old, id))
                => resp'.kind = "NotFoundError"
          /\ (req'.op = "delete" /\ resp'.kind = "NoContent")
                => /\ HasId(old, id)
                   /\ ~HasId(new, id)
                   /\ Handle(impl, Request("get", req'.pk, JNone, None, None),
                             file', now').resp.kind = "NotFoundError"]_vars

\* C6's case: a delete succeeded and left another task behind.
C6_Witness ==
    /\ req.op = "delete"
    /\ resp.kind = "NoContent"
    /\ StoredIn(file) # <<>>

\* C7: every load finds in tasks.json the initial content or the whole text
\* of a completed save, never the empty file between a writer's open and its
\* dump (SpecConc).
C7_LoadsSeeWholeSaves ==
    \A p \in DOMAIN seen : seen[p].kind \in {"missing", "json"}

\* C8: a request that ends in ValidationError or NotFoundError, and every get
\* and listing, leaves tasks.json exactly as it was; the file changes only on
\* the success path of create, updateDescription, updateStatus (and its two
\* shorthands) and delete.
C8_FailuresAndReadsWriteNothing ==
    [][/\ (resp'.kind \in {"ValidationError", "NotFoundError"}
           \/ req'.op \in {"get", "list"})
          => file' = file
       /\ file' # file
          => /\ req'.op \in {"create", "update", "status", "delete",
                             "mark_in_progress", "mark_done"}
             /\ resp'.kind \in {"Created", "OK", "NoContent"}]_vars

\* C8's case: a request failed on a store that holds tasks.
C8_Witness ==
    /\ resp.kind = "NotFoundError"
    /\ req.op \in {"update", "status", "delete"}
    /\ StoredIn(file) # <<>>

\* C9 as claimed: a listing without a filter returns the whole store in stored
\* order; with a filter in {todo, in-progress, done} exactly the stored tasks
\* of that status, in stored order; with any other filter value it answers
\* ValidationError.
C9_ListByStatusAsClaimed ==
    req.op = "list"
        => IF req.filter = None
           THEN resp = Response("OK", NoTask, StoredIn(file))
           ELSE IF req.filter \in StatusLiteral
           THEN resp = Response("OK", NoTask, Matching(StoredIn(file), req.filter))
           ELSE resp.kind = "ValidationError"

\* C9 amended: as claimed, except that the Django view takes an empty filter
\* value (?status=) for an absent one and returns the whole store.
C9_ListByStatus ==
    req.op = "list"
        => IF req.filter = None \/ (impl = "django" /\ req.filter = "")
           THEN resp = Response("OK", NoTask, StoredIn(file))
           ELSE IF req.filter \in StatusLiteral
           THEN resp = Response("OK", NoTask, Matching(StoredIn(file), req.filter))
           ELSE resp.kind = "ValidationError"

\* C9's case: a listing by status returned some of the stored tasks and left
\* out others.
C9_Witness ==
    /\ req.op = "list"
    /\ req.filter \in StatusLiteral
    /\ resp.kind = "OK"
    /\ resp.list # <<>>
    /\ Len(resp.list) < Len(StoredIn(file))

\* C10: every stored description is non-empty after trimming and at most 500
\* characters long.
C10_StoredDescriptionsValid ==
    \A k \in 1..Len(StoredIn(file)) :
        /\ py_len(py_strip(StoredIn(file)[k].description)) > 0
        /\ py_len(StoredIn(file)[k].description) <= 500

\* C11: a load of a missing tasks.json, or of one whose text is no JSON (the
\* empty file a writer has just opened, one writer's text over another's),
\* returns [] and the handler goes on as on an empty store: what it computes
\* is what it computes on a file holding the empty array; get, update, status
\* and delete answer NotFoundError, a listing is empty, create returns id 1
\* (SpecConc).
C11_UnparsableLoadsAsEmpty ==
    \A p \in DOMAIN seen :
        seen[p].kind # "json"
            => LET r == creq[p]
                   out == cout[p]
               IN /\ \E t \in 0..now :
                        out = Handle(impl, r, Save(impl, <<>>), t)
                  /\ r.op \in {"get", "update", "status", "delete"}
                        => out.resp.kind = "NotFoundError"
                  /\ r.op = "list" => out.resp = Response("OK", NoTask, <<>>)
                  /\ r.op = "create"
                        => (out.resp.kind = "Created" /\ out.resp.task.id = 1)

\* C11's case: a create loaded the empty file of a writer whose own load had
\* found tasks, and was answered id 1.
C11_Witness ==
    \E p \in DOMAIN cresp, q \in DOMAIN seen :
        /\ p \in DOMAIN seen
        /\ seen[p].kind = "truncated"
        /\ creq[p].op = "create"
        /\ cresp[p].kind = "Created"
        /\ cresp[p].task.id = 1
        /\ seen[q].kind = "json"
        /\ seen[q].tasks # <<>>

\* C12: no two tasks of the persisted store have the same id, in every state
\* the callers' interleaved loads and saves of creates, updates and deletes
\* reach (SpecConc; the sequential executions of Spec likewise).
C12_StoredIdsUnique ==
    \A j, k \in 1..Len(StoredIn(file)) :
        j # k => StoredIn(file)[j].id # StoredIn(file)[k].id

\* C12's case: one caller's delete and another's create have both saved, and
\* the store holds two tasks.
C12_Witness ==
    \E p, q \in DOMAIN cresp :
        /\ creq[p].op = "create"
        /\ cresp[p].kind = "Created"
        /\ creq[q].op = "delete"
        /\ cresp[q].kind = "NoContent"
        /\ Len(StoredIn(file)) = 2

\* Two callers' handlers have both loaded tasks.json before either began its
\* save: both found the same complete content (with two callers, a load that
\* follows the other's open finds the emptied file or the other's new text).
LoadedBeforeEitherSaved(p, q) ==
    /\ p # q
    /\ p \in DOMAIN seen
    /\ q \in DOMAIN seen
    /\ seen[p] = seen[q]
    /\ seen[p].kind \in {"missing", "json"}

\* C13: two creates that have both loaded the store before either saved have
\* computed the same id, the next id of the store they loaded, and each caller
\* is answered a created task with that id (SpecConc).
C13_OverlappingCreatesShareId ==
    \A p, q \in Proc :
        (/\ LoadedBeforeEitherSaved(p, q)
         /\ creq[p].op = "create"
         /\ creq[q].op = "create")
            => /\ cout[p].resp.kind = "Created"
               /\ cout[p].resp.task.id = NextIdIn(StoredIn(seen[p]))
               /\ cout[q].resp.task.id = cout[p].resp.task.id
               /\ p \in DOMAIN cresp => cresp[p] = cout[p].resp

\* C13's case: both creates have been answered, with the same id.
C13_Witness ==
    \E p, q \in DOMAIN cresp :
        /\ LoadedBeforeEitherSaved(p, q)
        /\ creq[p].op = "create"
        /\ creq[q].op = "create"
        /\ cresp[p].kind = "Created"
        /\ cresp[q].kind = "Created"
        /\ cresp[p].task.id = cresp[q].task.id

\* The task with id `id` in a sequence that holds one.
TaskWithId(tasks, id) ==
    tasks[CHOOSE k \in 1..Len(tasks) : tasks[k].id = id]

\* Callers p and q have both been answered 200 for an update (description or
\* status), each of a different task, and both had loaded the store before
\* either saved; no third caller writes.
OverlappingUpdates(p, q) ==
    /\ \A o \in DOMAIN cout \ {p, q} : ~cout[o].save
    /\ p \in DOMAIN cresp
    /\ q \in DOMAIN cresp
    /\ LoadedBeforeEitherSaved(p, q)
    /\ creq[p].op \in {"update", "status"}
    /\ creq[q].op \in {"update", "status"}
    /\ cresp[p].kind = "OK"
    /\ cresp[q].kind = "OK"
    /\ cresp[p].task.id # cresp[q].task.id

\* In the persisted store, caller w's change is there and caller l's is not:
\* the store is the list w saved, and in it l's task is as both had loaded it.
OnlyChangeOf(w, l) ==
    /\ StoredIn(file) = cout[w].tasks
    /\ TaskWithId(StoredIn(file), cresp[w].task.id) = cresp[w].task
    /\ TaskWithId(StoredIn(file), cresp[l].task.id)
          = TaskWithId(StoredIn(seen[l]), cresp[l].task.id)
    /\ TaskWithId(StoredIn(file), cresp[l].task.id) # cresp[l].task

\* C14: after two successful updates of two different tasks that both loaded
\* the store before either saved, the persisted store holds the change of one
\* of them only, the one whose save came last, or, where the later text was
\* the shorter one, no readable text at all; never both changes (SpecConc).
C14_LaterSaveOverwrites ==
    \A p, q \in Proc :
        OverlappingUpdates(p, q)
            => \/ file.kind = "json" /\ (OnlyChangeOf(p, q) \/ OnlyChangeOf(q, p))
               \/ file.kind = "garbled"

\* C14's case: both updates were answered and the store holds one change.
C14_Witness ==
    \E p, q \in Proc :
        /\ OverlappingUpdates(p, q)
        /\ file.kind = "json"
        /\ OnlyChangeOf(p, q)
        /\ creq[p].op = "status"
        /\ creq[q].op = "update"

\* C15: in sequential execution a successful updateStatus (or one of its two
\* shorthands) leaves the store as it was except for status and updatedAt of
\* the task with the given id, a successful updateDescription except for
\* description and updatedAt of that task: the number and order of the tasks,
\* that task's id and createdAt and every other task stay; a successful
\* delete(id) takes out exactly the task with that id and leaves the others as
\* they were, in their order.
C15_UpdatesAndDeleteTouchOneTask ==
    [][LET old == StoredIn(file)
           new == StoredIn(file')
           id == py_int(req'.pk).val
       IN /\ (req'.op \in {"status", "mark_in_progress", "mark_done"}
                /\ resp'.kind = "OK")
                => \E k \in 1..Len(old) :
                      /\ old[k].id = id
                      /\ new = [old EXCEPT ![k].status = new[k].status,
                                           ![k].updatedAt = new[k].updatedAt]
          /\ (req'.op = "update" /\ resp'.kind = "OK")
                => \E k \in 1..Len(old) :
                      /\ old[k].id = id
                      /\ new = [old EXCEPT
                                  ![k].description = new[k].description,
                                  ![k].updatedAt = new[k].updatedAt]
          /\ (req'.op = "delete" /\ resp'.kind = "NoContent")
                => \E k \in 1..Len(old) :
                      /\ old[k].id = id
                      /\ new = Pop(old, k)]_vars

\* C15's case: the first of two stored tasks got a new description.
C15_Witness ==
    /\ req.op = "update"
    /\ resp.kind = "OK"
    /\ Len(StoredIn(file)) = 2
    /\ StoredIn(file)[1] = resp.task
    /\ StoredIn(file)[1].description # StoredIn(file)[2].description

\* C16: in sequential execution, with a clock that does not go backwards, a
\* task that is in the store before and after a request has the same createdAt
\* after it as before, and every stored task has updatedAt >= createdAt.
C16_CreatedAtFixedAndNotAfterUpdatedAt ==
    [][LET old == StoredIn(file)
           new == StoredIn(file')
       IN /\ \A k \in 1..Len(new) : new[k].updatedAt >= new[k].createdAt
          /\ \A j \in 1..Len(old), k \in 1..Len(new) :
                old[j].id = new[k].id => new[k].createdAt = old[j].createdAt]_vars

\* C16's case: a task was updated at a later time than it was created.
C16_Witness ==
    /\ req.op \in {"update", "status"}
    /\ resp.kind = "OK"
    /\ resp.task.updatedAt > resp.task.createdAt
    /\ \E k \in 1..Len(StoredIn(file)) : StoredIn(file)[k] = resp.task

\* C17: every stored task has one of the statuses todo, in-progress, done, and
\* for every stored task, whatever its status, updateStatus to each of the
\* three statuses (its own and the earlier ones included) answers 200 with
\* the task in the requested status and saves the store with that task in
\* that status.
C17_AnyStatusToAnyStatus ==
    \A k \in 1..Len(StoredIn(file)) :
        LET task == StoredIn(file)[k]
        IN /\ task.status \in StatusLiteral
           /\ \A s \in StatusLiteral, pk \in Pks :
                 (py_int(pk).ok /\ py_int(pk).val = task.id)
                    => LET out == Handle(impl,
                                         Request("status", pk, JNone, s, None),
                                         file, now)
                       IN /\ out.resp.kind = "OK"
                          /\ out.resp.task.id = task.id
                          /\ out.resp.task.status = s
                          /\ out.save
                          /\ TaskWithId(out.tasks, task.id).status = s

\* C17's case: an updateStatus to todo was answered 200 while the store holds
\* a task that is done and one that is todo.
C17_Witness ==
    /\ req.op = "status"
    /\ req.data.status = "todo"
    /\ resp.kind = "OK"
    /\ resp.task.status = "todo"
    /\ \E j, k \in 1..Len(StoredIn(file)) :
          /\ StoredIn(file)[j].status = "done"
          /\ StoredIn(file)[k] = resp.task

\* C18: markInProgress(id) and markDone(id) do what updateStatus(id,
\* "in-progress") and updateStatus(id, "done") do from the same store at the
\* same time: the same response (the task, NotFoundError, or the refusal of
\* an id that is no number) and the same tasks.json afterwards.
C18_MarksAreUpdateStatus ==
    [][req'.op \in {"mark_in_progress", "mark_done"}
          => LET s == IF req'.op = "mark_done" THEN "done" ELSE "in-progress"
                 out == Handle(impl, Request("status", req'.pk, JNone, s, None),
                               file, now')
             IN /\ resp' = out.resp
                /\ file' = IF out.save THEN Save(impl, out.tasks) ELSE file]_vars

\* C18's case: markDone was answered with the task, now done, on a store of
\* two tasks.
C18_Witness ==
    /\ req.op = "mark_done"
    /\ resp.kind = "OK"
    /\ resp.task.status = "done"
    /\ Len(StoredIn(file)) = 2
    /\ \E k \in 1..Len(StoredIn(file)) : StoredIn(file)[k] = resp.task

\* What the claim compares of a store: the ids, descriptions and statuses of
\* its tasks, in their order.
Contents(tasks) ==
    [k \in 1..Len(tasks) |->
        <<tasks[k].id, tasks[k].description, tasks[k].status>>]

\* C19: run on the same store, the FastAPI app and the Django view set answer
\* every request (create, updateDescription, updateStatus, delete, get, list)
\* with the same outcome kind and leave the same store contents.
C19_ImplementationsAgree ==
    [][req'.op \in {"create", "update", "status", "delete", "get", "list"}
          => LET f == Handle("fastapi", req', file, now')
                 d == Handle("django", req', file, now')
             IN /\ f.resp.kind = d.resp.kind
                /\ f.save = d.save
                /\ Contents(f.tasks) = Contents(d.tasks)]_vars

\* C20: in sequential execution, whatever text a completed save has left in
\* tasks.json, saving what a load returns writes the same text again, and a
\* load after that returns the list the load before it returned, task for
\* task, field for field.
C20_SaveOfLoadRoundTrip ==
    file.kind = "json"
        => /\ Save(impl, Load(impl, file)) = file
           /\ Load(impl, Save(impl, Load(impl, file))) = Load(impl, file)

\* C20's case: the text an update has saved holds two tasks that differ in
\* status and in description.
C20_Witness ==
    /\ file.kind = "json"
    /\ req.op \in {"update", "status"}
    /\ resp.kind = "OK"
    /\ Len(Load(impl, file)) = 2
    /\ Load(impl, file)[1].status # Load(impl, file)[2].status
    /\ Load(impl, file)[1].description # Load(impl, file)[2].description

====
